---- MODULE Spec2Model ----
(***************************************************************************)
(* Model of the trip planning pipeline of                                  *)
(* backend/app/agents/trip_planner_agent.py (MultiAgentTripPlanner):       *)
(* plan_trip, _build_planner_query, _parse_response and                    *)
(* _create_fallback_plan.                                                  *)
(*                                                                         *)
(* Texts.  A Python str is modelled as a sequence of symbols.  A symbol is *)
(* one character ("{", "}", the double quote, "\\", ":", ",", "[", "]",     *)
(* "-", "/", " ", "\n", the letters j, s, o, n, and the backtick, which   *)
(* is written "'" because a TLA+ string cannot hold one) or a run of      *)
(* letters and digits written as one symbol ("Beijing", "2024", "05").     *)
(* A run never holds a backtick, a brace, a quote, a backslash or white    *)
(* space, and no run starts with the letters of the fence tag, so          *)
(* str.find, str.rfind, slicing, str.strip and the JSON scanner treat a    *)
(* run as they treat its characters.  A text whose fence is never closed   *)
(* ends in a one-character symbol, so the slice [a:-1] taken there drops   *)
(* one character.  Positions are 0-based as in Python.                     *)
(* Chinese literals of the source are written in pinyin (TLA+ strings are  *)
(* ASCII).  None is the empty sequence <<>> and a present value x is <<x>>.*)
(***************************************************************************)
EXTENDS Integers, Sequences, FiniteSets, TLC

(***************************************************************************)
(* Bounds of the model.                                                    *)
(***************************************************************************)
MaxDays == 2

MaxTurns == 2

(***************************************************************************)
(* Python str operations used by _parse_response.                          *)
(***************************************************************************)
None == <<>>

Some(x) == <<x>>

MinOf(S) == CHOOSE i \in S : \A j \in S : i <= j

MaxOf(S) == CHOOSE i \in S : \A j \in S : j <= i

\* sub occurs in s at 0-based position i
OccursAt(s, sub, i) ==
  /\ 0 <= i
  /\ i + Len(sub) <= Len(s)
  /\ \A k \in 1..Len(sub) : s[i + k] = sub[k]

\* s.find(sub, start): lowest 0-based position >= start where sub occurs, else -1
Find(s, sub, start) ==
  LET hits == { i \in start..(Len(s) - Len(sub)) : OccursAt(s, sub, i) }
  IN  IF hits = {} THEN -1 ELSE MinOf(hits)

\* s.rfind(sub): highest 0-based position where sub occurs, else -1
RFind(s, sub) ==
  LET hits == { i \in 0..(Len(s) - Len(sub)) : OccursAt(s, sub, i) }
  IN  IF hits = {} THEN -1 ELSE MaxOf(hits)

\* sub in s
Contains(s, sub) == \E i \in 0..(Len(s) - Len(sub)) : OccursAt(s, sub, i)

\* s[a:b] with Python's handling of negative and out-of-range bounds
Slice(s, a, b) ==
  LET n  == Len(s)
      lo == IF a < 0 THEN (IF a + n < 0 THEN 0 ELSE a + n) ELSE (IF a > n THEN n ELSE a)
      hi == IF b < 0 THEN (IF b + n < 0 THEN 0 ELSE b + n) ELSE (IF b > n THEN n ELSE b)
  IN  IF lo >= hi THEN <<>> ELSE SubSeq(s, lo + 1, hi)

Whitespace == {" ", "\n", "\t"}

RECURSIVE FirstKept(_, _)
FirstKept(s, i) == IF i > Len(s) \/ s[i] \notin Whitespace THEN i ELSE FirstKept(s, i + 1)

RECURSIVE LastKept(_, _)
LastKept(s, i) == IF i < 1 \/ s[i] \notin Whitespace THEN i ELSE LastKept(s, i - 1)

\* s.strip()
Strip(s) ==
  LET first == FirstKept(s, 1)
      last  == LastKept(s, Len(s))
  IN  IF first > last THEN <<>> ELSE SubSeq(s, first, last)

FenceJson == <<"'", "'", "'", "j", "s", "o", "n">>

Fence == <<"'", "'", "'">>

(***************************************************************************)
(* JSON values (what json.loads returns).  Every value is a record of the  *)
(* same shape: t is the type, s the symbols of a string, n the number,     *)
(* items the elements of an array or, for an object (a dict), its          *)
(* members as key, value, key, value, ... in insertion order.              *)
(***************************************************************************)
JNull == [t |-> "null", s |-> <<>>, n |-> 0, items |-> <<>>]

JStr(s) == [t |-> "str", s |-> s, n |-> 0, items |-> <<>>]

JNum(n) == [t |-> "num", s |-> <<>>, n |-> n, items |-> <<>>]

JArr(items) == [t |-> "arr", s |-> <<>>, n |-> 0, items |-> items]

JObj(items) == [t |-> "obj", s |-> <<>>, n |-> 0, items |-> items]

\* the digit runs the model writes, with their values
NumLit ==
  ("0" :> 0) @@ ("1" :> 1) @@ ("2" :> 2) @@ ("3" :> 3) @@ ("4" :> 4) @@ ("5" :> 5)
    @@ ("39" :> 39) @@ ("116" :> 116) @@ ("120" :> 120)

NumTok(n) == CHOOSE tok \in DOMAIN NumLit : NumLit[tok] = n

\* dict semantics: a repeated key keeps its first position and takes the last value
RECURSIVE PutMember(_, _, _)
PutMember(items, k, v) ==
  IF items = <<>> THEN <<k, v>>
  ELSE IF items[1] = k THEN <<k, v>> \o SubSeq(items, 3, Len(items))
  ELSE <<items[1], items[2]>> \o PutMember(SubSeq(items, 3, Len(items)), k, v)

Fail(p) == [ok |-> FALSE, v |-> JNull, p |-> p]

Got(v, p) == [ok |-> TRUE, v |-> v, p |-> p]

\* first position >= p (1-based) that holds no JSON white space
RECURSIVE SkipWs(_, _)
SkipWs(s, p) ==
  IF p <= Len(s) /\ s[p] \in Whitespace THEN SkipWs(s, p + 1) ELSE p

\* the body of a string literal from position p (after the opening quote)
RECURSIVE ScanString(_, _, _)
ScanString(s, p, acc) ==
  IF p > Len(s) THEN Fail(p)
  ELSE IF s[p] = "\"" THEN Got(JStr(acc), p + 1)
  ELSE IF s[p] \in {"\n", "\t"} THEN Fail(p)
  ELSE IF s[p] = "\\" THEN
    IF p + 1 > Len(s) THEN Fail(p)
    ELSE IF s[p + 1] = "\"" THEN ScanString(s, p + 2, Append(acc, "\""))
    ELSE IF s[p + 1] = "\\" THEN ScanString(s, p + 2, Append(acc, "\\"))
    ELSE IF s[p + 1] = "n" THEN ScanString(s, p + 2, Append(acc, "\n"))
    ELSE IF s[p + 1] = "u0060" THEN ScanString(s, p + 2, Append(acc, "'"))
    ELSE Fail(p)
  ELSE ScanString(s, p + 1, Append(acc, s[p]))

RECURSIVE ScanValue(_, _)
RECURSIVE ScanElements(_, _, _)
RECURSIVE ScanMembers(_, _, _)

\* array elements from position p (after "[" or after a ",")
ScanElements(s, p, acc) ==
  LET r == ScanValue(s, p)
      q == SkipWs(s, r.p)
  IN  IF ~r.ok \/ q > Len(s) THEN Fail(q)
      ELSE IF s[q] = "," THEN ScanElements(s, q + 1, Append(acc, r.v))
      ELSE IF s[q] = "]" THEN Got(JArr(Append(acc, r.v)), q + 1)
      ELSE Fail(q)

\* object members from position p (after "{" or after a ",")
ScanMembers(s, p, acc) ==
  LET k == SkipWs(s, p)
  IN  IF k > Len(s) \/ s[k] # "\"" THEN Fail(k)
      ELSE
        LET key == ScanString(s, k + 1, <<>>)
            c   == SkipWs(s, key.p)
        IN  IF ~key.ok \/ c > Len(s) \/ s[c] # ":" THEN Fail(c)
            ELSE
              LET r == ScanValue(s, c + 1)
                  q == SkipWs(s, r.p)
              IN  IF ~r.ok \/ q > Len(s) THEN Fail(q)
                  ELSE IF s[q] = "," THEN ScanMembers(s, q + 1, PutMember(acc, key.v, r.v))
                  ELSE IF s[q] = "}" THEN Got(JObj(PutMember(acc, key.v, r.v)), q + 1)
                  ELSE Fail(q)

\* one JSON value from position p, leading white space skipped
ScanValue(s, p) ==
  LET q == SkipWs(s, p)
  IN  IF q > Len(s) THEN Fail(q)
      ELSE IF s[q] = "{" THEN
        (LET m == SkipWs(s, q + 1)
         IN  IF m <= Len(s) /\ s[m] = "}" THEN Got(JObj(<<>>), m + 1)
             ELSE ScanMembers(s, q + 1, <<>>))
      ELSE IF s[q] = "[" THEN
        (LET m == SkipWs(s, q + 1)
         IN  IF m <= Len(s) /\ s[m] = "]" THEN Got(JArr(<<>>), m + 1)
             ELSE ScanElements(s, q + 1, <<>>))
      ELSE IF s[q] = "\"" THEN ScanString(s, q + 1, <<>>)
      ELSE IF s[q] \in DOMAIN NumLit THEN Got(JNum(NumLit[s[q]]), q + 1)
      ELSE IF s[q] = "null" THEN Got(JNull, q + 1)
      ELSE Fail(q)

\* json.loads(s): ok is FALSE where json.loads raises JSONDecodeError
Loads(s) ==
  LET r == ScanValue(s, 1)
  IN  IF r.ok /\ SkipWs(s, r.p) > Len(s) THEN [ok |-> TRUE, v |-> r.v]
      ELSE [ok |-> FALSE, v |-> JNull]

(***************************************************************************)
(* json.dumps with its default separators (", " and ": "): the             *)
(* serialization the re-extraction property speaks of.  A quote, a         *)
(* backslash and a line break are escaped; a backtick is written as is.    *)
(***************************************************************************)
RECURSIVE DumpString(_)
DumpString(s) ==
  IF s = <<>> THEN <<>>
  ELSE (IF s[1] = "\"" THEN <<"\\", "\"">>
        ELSE IF s[1] = "\\" THEN <<"\\", "\\">>
        ELSE IF s[1] = "\n" THEN <<"\\", "n">>
        ELSE <<s[1]>>) \o DumpString(Tail(s))

RECURSIVE Dumps(_)
RECURSIVE DumpElements(_)
RECURSIVE DumpMembers(_)

DumpElements(items) ==
  IF items = <<>> THEN <<>>
  ELSE Dumps(items[1]) \o (IF Len(items) = 1 THEN <<>> ELSE <<",", " ">>)
         \o DumpElements(Tail(items))

DumpMembers(items) ==
  IF items = <<>> THEN <<>>
  ELSE Dumps(items[1]) \o <<":", " ">> \o Dumps(items[2])
         \o (IF Len(items) = 2 THEN <<>> ELSE <<",", " ">>)
         \o DumpMembers(SubSeq(items, 3, Len(items)))

Dumps(v) ==
  IF v.t = "str" THEN <<"\"">> \o DumpString(v.s) \o <<"\"">>
  ELSE IF v.t = "num" THEN <<NumTok(v.n)>>
  ELSE IF v.t = "arr" THEN <<"[">> \o DumpElements(v.items) \o <<"]">>
  ELSE IF v.t = "obj" THEN <<"{">> \o DumpMembers(v.items) \o <<"}">>
  ELSE <<"null">>

(***************************************************************************)
(* _parse_response, lines 214-228: the candidate substring.                *)
(***************************************************************************)
\* which branch of the if/elif chain is taken
\* the branches tried in another order: any fence is taken before the tagged one
TierGenericFenceFirst(response) ==
  IF Contains(response, Fence) THEN "fence"
  ELSE IF Contains(response, FenceJson) THEN "json_fence"
  ELSE IF Contains(response, <<"{">>) /\ Contains(response, <<"}">>) THEN "braces"
  ELSE "none"

Tier(response) ==
  IF Contains(response, FenceJson) THEN "json_fence"
  ELSE IF Contains(response, Fence) THEN "fence"
  ELSE IF Contains(response, <<"{">>) /\ Contains(response, <<"}">>) THEN "braces"
  ELSE "none"

\* json_str of the branch taken (the "none" branch raises ValueError)
JsonStr(response) ==
  LET tier == Tier(response)
  IN  IF tier = "json_fence" THEN
        (LET json_start == Find(response, FenceJson, 0) + 7
             json_end   == Find(response, Fence, json_start)
         IN  Strip(Slice(response, json_start, json_end)))
      ELSE IF tier = "fence" THEN
        (LET json_start == Find(response, Fence, 0) + 3
             json_end   == Find(response, Fence, json_start)
         IN  Strip(Slice(response, json_start, json_end)))
      ELSE IF tier = "braces" THEN
        (LET json_start == Find(response, <<"{">>, 0)
             json_end   == RFind(response, <<"}">>) + 1
         IN  Slice(response, json_start, json_end))
      ELSE <<>>

\* lines 214-231: the payload json.loads returns, ok FALSE where a step raises
\* (response is None, no candidate, or the candidate is not JSON)
ExtractPayload(response) ==
  IF response = None \/ Tier(response[1]) = "none" THEN [ok |-> FALSE, v |-> JNull]
  ELSE Loads(JsonStr(response[1]))

(***************************************************************************)
(* Dates: datetime.strptime(s, "%Y-%m-%d"), + timedelta(days=i) and        *)
(* strftime("%Y-%m-%d") of _create_fallback_plan (lines 248, 253, 256).    *)
(* A date string is year run, "-", month run, "-", day run.                *)
(***************************************************************************)
YearLit == ("2023" :> 2023) @@ ("2024" :> 2024) @@ ("2025" :> 2025)

\* two-digit runs: Pad2[n] is what %m and %d write for n
Pad2 ==
  << "01", "02", "03", "04", "05", "06", "07", "08", "09", "10",
     "11", "12", "13", "14", "15", "16", "17", "18", "19", "20",
     "21", "22", "23", "24", "25", "26", "27", "28", "29", "30", "31" >>

\* %m and %d read one or two digits
Unpadded == <<"1", "2", "3", "4", "5", "6", "7", "8", "9">>

\* the number a month or day run denotes, 0 when it is no such run
TwoDigit(tok) ==
  IF \E n \in 1..31 : Pad2[n] = tok THEN CHOOSE n \in 1..31 : Pad2[n] = tok
  ELSE IF \E n \in 1..9 : Unpadded[n] = tok THEN CHOOSE n \in 1..9 : Unpadded[n] = tok
  ELSE 0

IsLeap(y) == (y % 4 = 0 /\ y % 100 # 0) \/ y % 400 = 0

DaysInMonth(y, m) ==
  IF m = 2 THEN (IF IsLeap(y) THEN 29 ELSE 28)
  ELSE IF m \in {4, 6, 9, 11} THEN 30 ELSE 31

NoDate == [y |-> 0, m |-> 0, d |-> 0]

\* strptime: ok FALSE where it raises ValueError
Strptime(s) ==
  IF /\ Len(s) = 5
     /\ s[2] = "-" /\ s[4] = "-"
     /\ s[1] \in DOMAIN YearLit
     /\ TwoDigit(s[3]) \in 1..12
     /\ TwoDigit(s[5]) \in 1..DaysInMonth(YearLit[s[1]], TwoDigit(s[3]))
  THEN [ok |-> TRUE, date |-> [y |-> YearLit[s[1]], m |-> TwoDigit(s[3]), d |-> TwoDigit(s[5])]]
  ELSE [ok |-> FALSE, date |-> NoDate]

NextDay(date) ==
  IF date.d < DaysInMonth(date.y, date.m) THEN [date EXCEPT !.d = date.d + 1]
  ELSE IF date.m < 12 THEN [date EXCEPT !.m = date.m + 1, !.d = 1]
  ELSE [y |-> date.y + 1, m |-> 1, d |-> 1]

\* date + timedelta(days=i)
RECURSIVE AddDays(_, _)
AddDays(date, i) == IF i = 0 THEN date ELSE AddDays(NextDay(date), i - 1)

YearTok(y) == CHOOSE tok \in DOMAIN YearLit : YearLit[tok] = y

Strftime(date) == <<YearTok(date.y), "-", Pad2[date.m], "-", Pad2[date.d]>>

(***************************************************************************)
(* _create_fallback_plan, lines 243-287.  Coordinates are in thousandths   *)
(* of a degree (116.4 + i*0.01 + j*0.005 is 116400 + 10*i + 5*j).          *)
(***************************************************************************)
BaseLongitude == 116400

BaseLatitude == 39900

VisitDuration == 120

FallbackAttractions == 2

FallbackAttraction(request, i, j) ==
  [ name           |-> request.city \o <<"jingdian", NumTok(j + 1)>>,
    address        |-> request.city \o <<"shi">>,
    location       |-> [ longitude |-> BaseLongitude + i * 10 + j * 5,
                         latitude  |-> BaseLatitude + i * 10 + j * 5 ],
    visit_duration |-> VisitDuration,
    description    |-> <<"zheshi">> \o request.city \o <<"dezhumingjingdian">>,
    category       |-> <<"jingdian">> ]

FallbackMeals(i) ==
  << [ type |-> <<"breakfast">>, name |-> <<"di", NumTok(i + 1), "tianzaocan">>,
       description |-> <<"dangditesezaocan">> ],
     [ type |-> <<"lunch">>, name |-> <<"di", NumTok(i + 1), "tianwucan">>,
       description |-> <<"wucantuijian">> ],
     [ type |-> <<"dinner">>, name |-> <<"di", NumTok(i + 1), "tianwancan">>,
       description |-> <<"wancantuijian">> ] >>

\* the loop body with the date counted from 1: day i dated start + (i + 1)
FallbackDayDatedFromOne(request, start, i) ==
  [ date           |-> Strftime(AddDays(start, i + 1)),
    day_index      |-> i,
    description    |-> <<"di", NumTok(i + 1), "tianxingcheng">>,
    transportation |-> request.transportation,
    accommodation  |-> request.accommodation,
    attractions    |-> [j \in 1..FallbackAttractions |-> FallbackAttraction(request, i, j - 1)],
    meals          |-> FallbackMeals(i) ]

\* the body of the for loop, lines 253-277 (i is 0-based)
FallbackDay(request, start, i) ==
  [ date           |-> Strftime(AddDays(start, i)),
    day_index      |-> i,
    description    |-> <<"di", NumTok(i + 1), "tianxingcheng">>,
    transportation |-> request.transportation,
    accommodation  |-> request.accommodation,
    attractions    |-> [j \in 1..FallbackAttractions |-> FallbackAttraction(request, i, j - 1)],
    meals          |-> FallbackMeals(i) ]

NoPlan ==
  [ city |-> <<>>, start_date |-> <<>>, end_date |-> <<>>, days |-> <<>>,
    weather_info |-> <<>>, overall_suggestions |-> <<>> ]

\* ok FALSE where strptime raises (the ValueError leaves _create_fallback_plan)
CreateFallbackPlan(request) ==
  LET start == Strptime(request.start_date)
  IN  IF ~start.ok THEN [ok |-> FALSE, plan |-> NoPlan]
      ELSE [ ok   |-> TRUE,
             plan |-> [ city       |-> request.city,
                        start_date |-> request.start_date,
                        end_date   |-> request.end_date,
                        days       |-> [k \in 1..request.travel_days |->
                                          FallbackDay(request, start.date, k - 1)],
                        weather_info |-> <<>>,
                        overall_suggestions |->
                          <<"zheshiweininguihuade">> \o request.city
                            \o <<NumTok(request.travel_days), "riyouxingcheng", ",",
                                 "jianyitiqianchakangejingdiandekaifangshijian">> ] ]

(***************************************************************************)
(* The TripPlan constructor call of line 234: the itinerary schema maps     *)
(* the payload's keys onto TripPlan / DayPlan / Attraction / Meal fields;  *)
(* a missing required field or a wrongly typed one raises.  The call sees  *)
(* the payload alone, never the request.  A JSON number of degrees n is    *)
(* the coordinate 1000 * n.                                                *)
(***************************************************************************)
Key(name) == JStr(<<name>>)

Has(v, name) == \E k \in 1..(Len(v.items) \div 2) : v.items[2 * k - 1] = Key(name)

Field(v, name) ==
  v.items[2 * (CHOOSE k \in 1..(Len(v.items) \div 2) : v.items[2 * k - 1] = Key(name))]

HasTyped(v, name, type) == Has(v, name) /\ Field(v, name).t = type

MealTypes == {<<"breakfast">>, <<"lunch">>, <<"dinner">>}

ValidMeal(v) ==
  /\ v.t = "obj"
  /\ HasTyped(v, "type", "str") /\ Field(v, "type").s \in MealTypes
  /\ HasTyped(v, "name", "str")
  /\ HasTyped(v, "description", "str")

ToMeal(v) ==
  [ type |-> Field(v, "type").s, name |-> Field(v, "name").s,
    description |-> Field(v, "description").s ]

ValidLocation(v) ==
  v.t = "obj" /\ HasTyped(v, "longitude", "num") /\ HasTyped(v, "latitude", "num")

ValidAttraction(v) ==
  /\ v.t = "obj"
  /\ HasTyped(v, "name", "str")
  /\ HasTyped(v, "address", "str")
  /\ Has(v, "location") /\ ValidLocation(Field(v, "location"))
  /\ HasTyped(v, "visit_duration", "num")
  /\ HasTyped(v, "description", "str")
  /\ HasTyped(v, "category", "str")

ToAttraction(v) ==
  [ name           |-> Field(v, "name").s,
    address        |-> Field(v, "address").s,
    location       |-> [ longitude |-> 1000 * Field(Field(v, "location"), "longitude").n,
                         latitude  |-> 1000 * Field(Field(v, "location"), "latitude").n ],
    visit_duration |-> Field(v, "visit_duration").n,
    description    |-> Field(v, "description").s,
    category       |-> Field(v, "category").s ]

ValidDayPlan(v) ==
  /\ v.t = "obj"
  /\ HasTyped(v, "date", "str")
  /\ HasTyped(v, "day_index", "num")
  /\ HasTyped(v, "description", "str")
  /\ HasTyped(v, "transportation", "str")
  /\ HasTyped(v, "accommodation", "str")
  /\ HasTyped(v, "attractions", "arr")
  /\ \A k \in 1..Len(Field(v, "attractions").items) :
       ValidAttraction(Field(v, "attractions").items[k])
  /\ HasTyped(v, "meals", "arr")
  /\ \A k \in 1..Len(Field(v, "meals").items) : ValidMeal(Field(v, "meals").items[k])

ToDayPlan(v) ==
  [ date           |-> Field(v, "date").s,
    day_index      |-> Field(v, "day_index").n,
    description    |-> Field(v, "description").s,
    transportation |-> Field(v, "transportation").s,
    accommodation  |-> Field(v, "accommodation").s,
    attractions    |-> [k \in 1..Len(Field(v, "attractions").items) |->
                          ToAttraction(Field(v, "attractions").items[k])],
    meals          |-> [k \in 1..Len(Field(v, "meals").items) |->
                          ToMeal(Field(v, "meals").items[k])] ]

\* data is a dict carrying every TripPlan field with its type
ValidTripPlan(data) ==
  /\ data.t = "obj"
  /\ HasTyped(data, "city", "str")
  /\ HasTyped(data, "start_date", "str")
  /\ HasTyped(data, "end_date", "str")
  /\ HasTyped(data, "days", "arr")
  /\ \A k \in 1..Len(Field(data, "days").items) : ValidDayPlan(Field(data, "days").items[k])
  /\ HasTyped(data, "weather_info", "arr")
  /\ HasTyped(data, "overall_suggestions", "str")

ToTripPlan(data) ==
  [ city       |-> Field(data, "city").s,
    start_date |-> Field(data, "start_date").s,
    end_date   |-> Field(data, "end_date").s,
    days       |-> [k \in 1..Len(Field(data, "days").items) |->
                      ToDayPlan(Field(data, "days").items[k])],
    weather_info        |-> Field(data, "weather_info").items,
    overall_suggestions |-> Field(data, "overall_suggestions").s ]

(***************************************************************************)
(* _parse_response, lines 200-241.  via tells which return was taken;      *)
(* raised is TRUE where the except clause's _create_fallback_plan raises,  *)
(* which leaves _parse_response.                                           *)
(***************************************************************************)
ParseResponse(response, request) ==
  LET payload == ExtractPayload(response)
  IN  IF payload.ok /\ ValidTripPlan(payload.v)
      THEN [raised |-> FALSE, plan |-> ToTripPlan(payload.v), via |-> "parsed"]
      ELSE LET fallback == CreateFallbackPlan(request)
           IN  [raised |-> ~fallback.ok, plan |-> fallback.plan, via |-> "parse_fallback"]

(***************************************************************************)
(* Travel requests.  start_date is a str that _create_fallback_plan hands  *)
(* to strptime: the requests hold well-formed dates (a month end in a      *)
(* leap year, a year end, an unpadded month) and strings strptime rejects. *)
(***************************************************************************)
StartDates ==
  { <<"2024", "-", "05", "-", "01">>,
    <<"2024", "-", "02", "-", "28">>,
    <<"2023", "-", "12", "-", "31">>,
    <<"2024", "-", "5", "-", "30">>,
    <<"2024", "/", "05", "/", "01">> }

\* further dates for the check of the fallback generator alone
MoreStartDates ==
  { <<"2023", "-", "02", "-", "27">>,
    <<"2024", "-", "12", "-", "30">>,
    <<"2023", "-", "02", "-", "30">>,
    <<"2024", "-", "13", "-", "01">>,
    <<"2024", "-", "05">> }

\* end_date: the last day of the inclusive span (start_date itself when
\* start_date is no date)
EndDate(start_date, travel_days) ==
  LET start == Strptime(start_date)
  IN  IF start.ok THEN Strftime(AddDays(start.date, travel_days - 1)) ELSE start_date

\* preferences and free_text_input, absent and present
Profiles ==
  { [preferences |-> <<>>, free_text_input |-> None],
    [preferences |-> << <<"lishi">>, <<"meishi">> >>, free_text_input |-> Some(<<"manyou">>)] }

Requests ==
  { [ city            |-> <<"Beijing">>,
      start_date      |-> sd,
      end_date        |-> EndDate(sd, n),
      travel_days     |-> n,
      transportation  |-> <<"driving">>,
      accommodation   |-> <<"hotel">>,
      preferences     |-> pf.preferences,
      free_text_input |-> pf.free_text_input ] :
      sd \in StartDates, n \in 1..MaxDays, pf \in Profiles }

(***************************************************************************)
(* Query building, lines 123-175 (the fixed Chinese prose is shortened to  *)
(* one run per passage; every interpolated field is kept, in order).       *)
(***************************************************************************)
RECURSIVE Join(_, _)
Join(parts, sep) ==
  IF parts = <<>> THEN <<>>
  ELSE IF Len(parts) = 1 THEN parts[1]
  ELSE parts[1] \o sep \o Join(Tail(parts), sep)

\* _build_attraction_query: the first preference, else the generic keyword
BuildAttractionQuery(request) ==
  LET keywords == IF request.preferences # <<>> THEN request.preferences[1]
                  ELSE <<"jingdian">>
  IN  <<"qingshiyong", "amap_maps_text_search", "gongjusousuo">> \o request.city
        \o <<"de">> \o keywords
        \o <<"xiangguanjingdian", "\n", "[", "TOOL_CALL", ":", "amap_maps_text_search",
             ":", "keywords", "=">> \o keywords \o <<",", "city", "=">> \o request.city
        \o <<"]">>

\* the query of _build_planner_query, lines 143-175
BuildQuery(request) ==
  <<"xietiaozhuanjia", "\n", "1", ".", " ">> \o BuildAttractionQuery(request)
    \o <<";", "\n", "2", ".", " ", "chaxuntianqi", NumTok(request.travel_days), "tian",
         ";", "\n", "3", ".", " ", "tuijian">> \o request.accommodation
    \o <<"jiudian", ";", "\n", "4", ".", " ", "guihua", NumTok(request.travel_days),
         "tian", ";", "\n", "5", ".", " ", "shuchu", "JSON", "\n", "chengshi", ":", " ">>
    \o request.city \o <<"\n", "riqi", ":", " ">> \o request.start_date
    \o <<" ", "zhi", " ">> \o request.end_date
    \o <<"\n", "tianshu", ":", " ", NumTok(request.travel_days), "tian", "\n",
         "jiaotong", ":", " ">> \o request.transportation
    \o <<"\n", "zhusu", ":", " ">> \o request.accommodation
    \o <<"\n", "pianhao", ":", " ">>
    \o (IF request.preferences # <<>> THEN Join(request.preferences, <<",", " ">>)
        ELSE <<"wu">>)
    \o <<"\n", "yaoqiu", "\n">>
    \o (IF request.free_text_input # None
        THEN <<"\n", "*", "*", "ewaiyaoqiu", ":", "*", "*", " ">> \o request.free_text_input[1]
        ELSE <<>>)

(***************************************************************************)
(* Payloads a coordinator may answer with, and the texts that carry them.  *)
(***************************************************************************)
MealValue(type) ==
  JObj(<< Key("type"), JStr(<<type>>), Key("name"), JStr(<<"kaoya">>),
          Key("description"), JStr(<<"quanjude">>) >>)

AttractionValue(name) ==
  JObj(<< Key("name"), JStr(<<name>>),
          Key("address"), JStr(<<"Beijing", "shi">>),
          Key("location"), JObj(<<Key("longitude"), JNum(116), Key("latitude"), JNum(39)>>),
          Key("visit_duration"), JNum(120),
          Key("description"), JStr(<<"mingsheng">>),
          Key("category"), JStr(<<"jingdian">>) >>)

DayHead(date, index) ==
  << Key("date"), JStr(date), Key("day_index"), JNum(index),
     Key("description"), JStr(<<"di", "1", "tian">>),
     Key("transportation"), JStr(<<"driving">>),
     Key("accommodation"), JStr(<<"hotel">>) >>

DayValue(date, index, attractions, meals) ==
  JObj(DayHead(date, index) \o <<Key("attractions"), JArr(attractions), Key("meals"), JArr(meals)>>)

PlanValue(days) ==
  JObj(<< Key("city"), JStr(<<"Beijing">>),
          Key("start_date"), JStr(<<"2024", "-", "05", "-", "01">>),
          Key("end_date"), JStr(<<"2024", "-", "05", "-", "01">>),
          Key("days"), days,
          Key("weather_info"), JArr(<<>>),
          Key("overall_suggestions"), JStr(<<"zhu", " ", "lvtu", " ", "yukuai">>) >>)

\* one full day: what the query asks for when travel_days is 1
GoodPlan ==
  PlanValue(JArr(<< DayValue(<<"2024", "-", "05", "-", "01">>, 0,
                             <<AttractionValue("gugong"), AttractionValue("tiantan")>>,
                             <<MealValue("breakfast"), MealValue("lunch"), MealValue("dinner")>>) >>))

\* every field present and typed, no day at all
NoDaysPlan == PlanValue(JArr(<<>>))

\* one day, misdated, with one attraction and one meal
ThinPlan ==
  PlanValue(JArr(<< DayValue(<<"2025", "-", "01", "-", "01">>, 3,
                             <<AttractionValue("gugong")>>, <<MealValue("dinner")>>) >>))

\* a day entry without meals
MissingMealsPlan ==
  PlanValue(JArr(<< JObj(DayHead(<<"2024", "-", "05", "-", "01">>, 0)
                           \o <<Key("attractions"), JArr(<<AttractionValue("gugong")>>)>>) >>))

\* days is a string
WrongTypePlan == PlanValue(JStr(<<"san", "tian">>))

\* a JSON array, not an object
NotAnObject == JArr(<<JNum(1), JNum(2)>>)

\* an object whose string value spells a fence, written with ` escapes
EscapedFenceText ==
  << "{", "\"", "note", "\"", ":", " ", "\"", "\\", "u0060", "\\", "u0060", "\\", "u0060",
     "\"", "}" >>

\* an object that is never closed
BrokenText == <<"{", "\"", "city", "\"", ":", " ", "\"", "Beijing", "\"", ",">>

\* an opening fence tagged json, the body on its own line, a closing fence
InJsonFence(body) == FenceJson \o <<"\n">> \o body \o <<"\n">> \o Fence

InFence(body) == Fence \o <<"\n">> \o body \o <<"\n">> \o Fence

\* terminal answers of the planning call
Answers ==
  { <<>>,
    <<"baoqian", ",", "wufa", "guihua">>,
    InJsonFence(Dumps(GoodPlan)),
    InJsonFence(Dumps(NoDaysPlan)),
    InFence(Dumps(ThinPlan)),
    InJsonFence(Dumps(MissingMealsPlan)),
    InJsonFence(BrokenText) }

(***************************************************************************)
(* The planning call.                                                      *)
(***************************************************************************)
Agents == {"attraction_expert", "weather_expert", "hotel_expert"}

Supervisor == "planner_supervisor"

Message(role, name, content) == [role |-> role, name |-> name, content |-> content]

\* the input of astream with a system message set before the task
InitialExchangeWithSystemMessage(request) ==
  << Message("SystemMessage", "", <<"ni", "shi", "xingcheng", "guihua", "zhuanjia">>),
     Message("HumanMessage", "", BuildQuery(request)) >>

\* the input of astream, line 187
InitialExchange(request) == <<Message("HumanMessage", "", BuildQuery(request))>>

\* the coordinator's instruction to the agent it addresses
Instruction(agent) == <<"transfer_to", agent>>

\* the one reply of a specialized agent; the attraction expert answers with a plan
AgentReplyBody(agent) ==
  IF agent = "attraction_expert" THEN InJsonFence(Dumps(NoDaysPlan))
  ELSE <<agent, "wancheng">>

\* the loop body reading the first message of the chunk, not the last
ObserveFirstMessage(final, chunk) ==
  IF "messages" \in DOMAIN chunk[2]
  THEN Some(chunk[2]["messages"][1].content)
  ELSE final

\* lines 191-196: the loop body on one chunk of the stream
Observe(final, chunk) ==
  IF "messages" \in DOMAIN chunk[2]
  THEN Some(chunk[2]["messages"][Len(chunk[2]["messages"])].content)
  ELSE final

\* a chunk of stream_mode ["values"]: the mode and the exchange so far
Chunk(messages) == <<"values", [messages |-> messages]>>

(***************************************************************************)
(* State.                                                                  *)
(*   request        the TripRequest of the call                            *)
(*   planner_agent  self.planner_agent: "None" until init() has compiled   *)
(*                  the supervisor                                         *)
(*   pc             where plan_trip is: idle, query, stream, parse,        *)
(*                  except, returned, raised                               *)
(*   phase          the coordinator's state over the exchange              *)
(*   exchange       the messages of the coordinator exchange               *)
(*   active         the specialized agents at work                         *)
(*   turns          delegations made in this call                          *)
(*   snapshot       the last chunk the stream yielded (None before one)    *)
(*   final_output   final_output of _build_planner_query                   *)
(*   sent           how many times astream was started                     *)
(*   called_with    planner_agent as it was when plan_trip was called      *)
(*   handed         the arguments _parse_response was called with          *)
(*   result         the TripPlan returned (None before the return)         *)
(*   via            the return statement that produced result              *)
(*   text, extracted, parsed   the check of _parse_response alone: a       *)
(*                  response, the payloads extracted from it and from its  *)
(*                  re-serialized payload, and what _parse_response did    *)
(* The module globals and the coroutines that call their getters:          *)
(*   amap_api_key   settings.amap_api_key is set                           *)
(*   amap_mcp_tool  _amap_mcp_tool: 0 for None, else the tool list held    *)
(*   clients        how many MultiServerMCPClient were created             *)
(*   assigned       the tool lists assigned to _amap_mcp_tool, in order    *)
(*   failures       how many get_tools() calls raised                      *)
(*   tool_pc        where each caller of get_amap_mcp_tool is              *)
(*   tool_got       the tool list each caller was returned (0 before)      *)
(*   multi_agent_planner  _multi_agent_planner: 0 for None, else the       *)
(*                  planner instance held                                  *)
(*   planners       planner_agent of each MultiAgentTripPlanner created    *)
(*   planner_pc     where each caller of get_trip_planner_agent is         *)
(*   planner_got    the instance each caller was returned, and whether     *)
(*                  its planner_agent was set at the return                *)
(***************************************************************************)
VARIABLES request, planner_agent, pc, phase, exchange, active, turns, snapshot,
          final_output, sent, called_with, handed, result, via, text, extracted, parsed,
          amap_api_key, amap_mcp_tool, clients, assigned, failures, tool_pc, tool_got,
          multi_agent_planner, planners, planner_pc, planner_got

toolVars == << amap_api_key, amap_mcp_tool, clients, assigned, failures, tool_pc, tool_got >>

singletonVars == << multi_agent_planner, planners, planner_pc, planner_got >>

vars == << request, planner_agent, pc, phase, exchange, active, turns, snapshot,
           final_output, sent, called_with, handed, result, via, text, extracted, parsed,
           toolVars, singletonVars >>

callVars ==
  << pc, phase, exchange, active, turns, snapshot, final_output, sent, called_with, handed,
     result, via >>

checkVars == << text, extracted, parsed >>

\* the coroutines that call a getter at the same time
MaxCallers == 4

Callers == 1..MaxCallers

\* amap_service.py line 11: _amap_mcp_tool = None, and no caller yet
NoTool ==
  /\ amap_mcp_tool = 0
  /\ clients = 0
  /\ assigned = <<>>
  /\ failures = 0
  /\ tool_pc = [c \in Callers |-> "idle"]
  /\ tool_got = [c \in Callers |-> 0]

\* trip_planner_agent.py line 291: _multi_agent_planner = None, and no caller yet
NoPlanner ==
  /\ multi_agent_planner = 0
  /\ planners = <<>>
  /\ planner_pc = [c \in Callers |-> "idle"]
  /\ planner_got = [c \in Callers |-> [planner |-> 0, ready |-> FALSE]]

\* the module globals as the imports leave them
Unshared == amap_api_key = TRUE /\ NoTool /\ NoPlanner

\* a planner after __init__ (lines 28-41), no call made yet
Idle ==
  /\ planner_agent = "None"
  /\ pc = "idle"
  /\ phase = "idle"
  /\ exchange = <<>>
  /\ active = {}
  /\ turns = 0
  /\ snapshot = None
  /\ final_output = None
  /\ sent = 0
  /\ called_with = "nothing"
  /\ handed = <<>>
  /\ result = None
  /\ via = "none"
  /\ extracted = <<>>
  /\ parsed = None

Init ==
  /\ request \in Requests
  /\ text = None
  /\ Idle
  /\ Unshared

\* init(), lines 43-86, completing: the supervisor is compiled
InitPlanner ==
  /\ pc = "idle"
  /\ planner_agent = "None"
  /\ planner_agent' = "compiled"
  /\ UNCHANGED << request, callVars, checkVars, toolVars, singletonVars >>

\* plan_trip is called, lines 98-105
PlanTrip ==
  /\ pc = "idle"
  /\ pc' = "query"
  /\ called_with' = planner_agent
  /\ UNCHANGED << request, planner_agent, phase, exchange, active, turns, snapshot,
                  final_output, sent, handed, result, via, checkVars, toolVars, singletonVars >>

\* _build_planner_query up to the start of the stream, lines 140-190
BuildPlannerQuery ==
  /\ pc = "query"
  /\ IF planner_agent = "None"
     THEN /\ pc' = "except"
          /\ UNCHANGED << phase, exchange, sent >>
     ELSE /\ pc' = "stream"
          /\ phase' = "awaiting_first_turn"
          /\ exchange' = InitialExchange(request)
          /\ sent' = sent + 1
  /\ UNCHANGED << request, planner_agent, active, turns, snapshot, final_output, handed,
                  result, via, called_with, checkVars, toolVars, singletonVars >>

\* the stream yields the exchange: one pass of the loop, lines 186-196
Yield(messages) ==
  /\ snapshot' = Some(Chunk(messages))
  /\ final_output' = Observe(final_output, Chunk(messages))

\* the stream yields the exchange as it was handed in; the coordinator takes its turn
FirstTurn ==
  /\ pc = "stream"
  /\ phase = "awaiting_first_turn"
  /\ phase' = "dispatching"
  /\ Yield(exchange)
  /\ UNCHANGED << request, planner_agent, pc, exchange, active, turns, sent, handed,
                  result, via, called_with, checkVars, toolVars, singletonVars >>

\* the coordinator addresses one specialized agent
Dispatch(agent) ==
  /\ pc = "stream"
  /\ phase = "dispatching"
  /\ turns < MaxTurns
  /\ phase' = "collecting"
  /\ active' = active \cup {agent}
  /\ turns' = turns + 1
  /\ exchange' = Append(exchange, Message("AIMessage", Supervisor, Instruction(agent)))
  /\ Yield(exchange')
  /\ UNCHANGED << request, planner_agent, pc, sent, handed, result, via, called_with, checkVars, toolVars, singletonVars >>

\* the agent addressed replies; its reply joins the exchange
AgentReply(agent) ==
  /\ pc = "stream"
  /\ phase = "collecting"
  /\ agent \in active
  /\ phase' = "dispatching"
  /\ active' = active \ {agent}
  /\ exchange' = Append(exchange, Message("AIMessage", agent, AgentReplyBody(agent)))
  /\ Yield(exchange')
  /\ UNCHANGED << request, planner_agent, pc, turns, sent, handed, result, via, called_with, checkVars, toolVars, singletonVars >>

\* the coordinator finalizes with a reply that delegates no further
Finalize(body) ==
  /\ pc = "stream"
  /\ phase = "dispatching"
  /\ phase' = "terminal"
  /\ exchange' = Append(exchange, Message("AIMessage", Supervisor, body))
  /\ Yield(exchange')
  /\ UNCHANGED << request, planner_agent, pc, active, turns, sent, handed, result, via,
                  called_with, checkVars, toolVars, singletonVars >>

\* the stream is exhausted: return final_output, line 198
StreamEnd ==
  /\ pc = "stream"
  /\ phase = "terminal"
  /\ pc' = "parse"
  /\ UNCHANGED << request, planner_agent, phase, exchange, active, turns, snapshot,
                  final_output, sent, handed, result, via, called_with, checkVars, toolVars, singletonVars >>

\* the stream ends although the coordinator has not finalized
StreamStops ==
  /\ pc = "stream"
  /\ phase \in {"awaiting_first_turn", "dispatching", "collecting"}
  /\ pc' = "parse"
  /\ phase' = "stopped"
  /\ active' = {}
  /\ UNCHANGED << request, planner_agent, exchange, turns, snapshot, final_output, sent,
                  handed, result, via, called_with, checkVars, toolVars, singletonVars >>

\* the coordination turn raises (a collaborator or a tool failed)
StreamRaise ==
  /\ pc = "stream"
  /\ phase \in {"awaiting_first_turn", "dispatching", "collecting"}
  /\ pc' = "except"
  /\ phase' = "failed"
  /\ active' = {}
  /\ UNCHANGED << request, planner_agent, exchange, turns, snapshot, final_output, sent,
                  handed, result, via, called_with, checkVars, toolVars, singletonVars >>

\* lines 109-115: _parse_response on the terminal answer, and the return
ParseAndReturn ==
  /\ pc = "parse"
  /\ handed' = Append(handed, final_output)
  /\ LET r == ParseResponse(final_output, request)
     IN  IF r.raised
         THEN pc' = "except" /\ UNCHANGED << result, via >>
         ELSE pc' = "returned" /\ result' = Some(r.plan) /\ via' = r.via
  /\ UNCHANGED << request, planner_agent, phase, exchange, active, turns, snapshot,
                  final_output, sent, called_with, checkVars, toolVars, singletonVars >>

\* lines 117-121: the except clause of plan_trip
ExceptFallback ==
  /\ pc = "except"
  /\ LET fallback == CreateFallbackPlan(request)
     IN  IF fallback.ok
         THEN pc' = "returned" /\ result' = Some(fallback.plan) /\ via' = "except_fallback"
         ELSE pc' = "raised" /\ UNCHANGED << result, via >>
  /\ UNCHANGED << request, planner_agent, phase, exchange, active, turns, snapshot,
                  final_output, sent, called_with, handed, checkVars, toolVars, singletonVars >>

Next ==
  \/ InitPlanner
  \/ PlanTrip
  \/ BuildPlannerQuery
  \/ FirstTurn
  \/ \E agent \in Agents : Dispatch(agent)
  \/ \E agent \in Agents : AgentReply(agent)
  \/ \E body \in Answers : Finalize(body)
  \/ StreamEnd
  \/ StreamStops
  \/ StreamRaise
  \/ ParseAndReturn
  \/ ExceptFallback

Spec == Init /\ [][Next]_vars

(***************************************************************************)
(* _create_fallback_plan alone: a request is drawn, the generator is       *)
(* applied to it.                                                          *)
(***************************************************************************)
MaxFallbackDays == 4

FallbackRequests ==
  { [ city            |-> city,
      start_date      |-> sd,
      end_date        |-> EndDate(sd, n),
      travel_days     |-> n,
      transportation  |-> <<"driving">>,
      accommodation   |-> <<"hotel">>,
      preferences     |-> pf.preferences,
      free_text_input |-> pf.free_text_input ] :
      city \in {<<"Beijing">>, <<"Shanghai">>}, sd \in StartDates \cup MoreStartDates,
      n \in 1..MaxFallbackDays, pf \in Profiles }

FallbackInit ==
  /\ request \in FallbackRequests
  /\ text = None
  /\ Idle
  /\ Unshared

\* _create_fallback_plan(request), lines 243-287
CallCreateFallbackPlan ==
  /\ pc = "idle"
  /\ LET fallback == CreateFallbackPlan(request)
     IN  IF fallback.ok
         THEN pc' = "returned" /\ result' = Some(fallback.plan) /\ via' = "fallback"
         ELSE pc' = "raised" /\ UNCHANGED << result, via >>
  /\ UNCHANGED << request, planner_agent, phase, exchange, active, turns, snapshot,
                  final_output, sent, called_with, handed, checkVars, toolVars, singletonVars >>

FallbackNext == CallCreateFallbackPlan

SpecFallback == FallbackInit /\ [][FallbackNext]_vars
(***************************************************************************)
(* _parse_response alone: a response text and a request are drawn,         *)
(* _parse_response is applied, and the payload it extracted is serialized, *)
(* fenced and extracted again.                                             *)
(***************************************************************************)
\* what a fence or a text may hold
Bodies ==
  { Dumps(GoodPlan),
    Dumps(NoDaysPlan),
    Dumps(MissingMealsPlan),
    Dumps(WrongTypePlan),
    Dumps(NotAnObject),
    EscapedFenceText,
    BrokenText,
    <<"{", "}">>,
    <<" ", "{", "\"", "k", "\"", ":", "1", "}", "\t">>,
    <<"json", " ", "shuju", ".">> }

Prose == <<"{", "zhu", "}", " ", "jihua", "ruxia", ":", "\n">>

\* the ways a body sits in a response
Layouts(body) ==
  { body,
    <<"jihua", ":", " ">> \o body \o <<" ", "wanbi">>,
    body \o <<" ", "{", "zhu", "}">>,
    InJsonFence(body),
    FenceJson \o body \o Fence,
    InFence(body),
    Prose \o InJsonFence(body) \o <<"\n", "{", "wanbi", "}">>,
    InFence(<<"{", "}">>) \o <<"\n">> \o InJsonFence(body),
    InJsonFence(body) \o <<"\n">> \o InJsonFence(<<"{", "}">>),
    InJsonFence(body) \o <<"\n">> \o InFence(<<"[", "]">>),
    FenceJson \o <<"\n">> \o body,
    Fence \o <<"\n">> \o body }

Texts ==
  UNION { Layouts(body) : body \in Bodies }
    \cup { <<>>, <<"baoqian">>, <<"}", " ", "{">>, <<"{">>, Fence, FenceJson }

ParseRequests == { r \in Requests : r.preferences = <<>> }

ParseInit ==
  /\ request \in ParseRequests
  /\ text \in {None} \cup { Some(t) : t \in Texts }
  /\ Idle
  /\ Unshared

\* _parse_response(text, request), lines 200-241
CallParseResponse ==
  /\ parsed = None
  /\ parsed' = Some(ParseResponse(text, request))
  /\ extracted' = <<ExtractPayload(text)>>
  /\ UNCHANGED << request, planner_agent, callVars, text, toolVars, singletonVars >>

\* the payload extracted is serialized, fenced as JSON and extracted again
ReExtract ==
  /\ Len(extracted) = 1
  /\ extracted[1].ok
  /\ extracted' = Append(extracted, ExtractPayload(Some(InJsonFence(Dumps(extracted[1].v)))))
  /\ UNCHANGED << request, planner_agent, callVars, text, parsed, toolVars, singletonVars >>

ParseNext == CallParseResponse \/ ReExtract

SpecParse == ParseInit /\ [][ParseNext]_vars

(***************************************************************************)
(* What the itinerary contract says of a plan, stated apart from the       *)
(* generator: dates are compared by their day number in the calendar.      *)
(***************************************************************************)
DaysBeforeMonth == <<0, 31, 59, 90, 120, 151, 181, 212, 243, 273, 304, 334>>

\* the number of the day in the proleptic Gregorian calendar
DateOrdinal(date) ==
  LET y == date.y - 1
  IN  365 * y + (y \div 4) - (y \div 100) + (y \div 400)
        + DaysBeforeMonth[date.m] + (IF date.m > 2 /\ IsLeap(date.y) THEN 1 ELSE 0)
        + date.d

WellFormedDate(s) == Strptime(s).ok

\* the string s is the date of the string start, i days later
IsDateAfter(s, start, i) ==
  /\ WellFormedDate(s)
  /\ WellFormedDate(start)
  /\ DateOrdinal(Strptime(s).date) = DateOrdinal(Strptime(start).date) + i

MealOrder == << <<"breakfast">>, <<"lunch">>, <<"dinner">> >>

HasThreeMeals(day) ==
  /\ Len(day.meals) = 3
  /\ \A m \in 1..3 : day.meals[m].type = MealOrder[m]

\* len(days) == travel_days, contiguous indices from 0, dates start_date + index
DaysFollowRequest(plan, req) ==
  /\ Len(plan.days) = req.travel_days
  /\ \A k \in 1..Len(plan.days) :
       /\ plan.days[k].day_index = k - 1
       /\ IsDateAfter(plan.days[k].date, req.start_date, k - 1)
       /\ HasThreeMeals(plan.days[k])

ValidRequest(req) == WellFormedDate(req.start_date) /\ req.travel_days >= 1

Returned == pc = "returned" /\ result # None

\* some step of the call failed: the coordination could not run or raised, or the
\* terminal answer was absent, unparseable or schema-invalid
StepFailed == via \in {"except_fallback", "parse_fallback"} \/ pc \in {"except", "raised"}

(***************************************************************************)
(* C1: for every request and every behaviour of the collaborators,         *)
(* plan_trip returns an itinerary and never lets an exception reach its    *)
(* caller; whenever an internal step failed, the value returned is the     *)
(* fallback itinerary built from the request.                              *)
(***************************************************************************)
C1_PlanTripNeverRaises ==
  /\ pc # "raised"
  /\ pc = "returned" =>
       /\ result # None
       /\ StepFailed => /\ CreateFallbackPlan(request).ok
                        /\ result = Some(CreateFallbackPlan(request).plan)

(***************************************************************************)
(* C2: for every valid request and every terminal answer, on the parsed    *)
(* path and on the fallback path alike, the itinerary plan_trip returns    *)
(* has travel_days days, day k dated start_date + k with indices           *)
(* contiguous from 0, three meals a day in breakfast, lunch, dinner order  *)
(* and two or three attractions a day.                                     *)
(***************************************************************************)
C2_ReturnedItineraryFollowsRequest ==
  (Returned /\ ValidRequest(request)) =>
     /\ DaysFollowRequest(result[1], request)
     /\ \A k \in 1..Len(result[1].days) : Len(result[1].days[k].attractions) \in 2..3

\* the payload of the response passes the schema with a day count other than travel_days
DayCountMismatch(response, req) ==
  LET payload == ExtractPayload(response)
  IN  /\ payload.ok
      /\ ValidTripPlan(payload.v)
      /\ Len(ToTripPlan(payload.v).days) # req.travel_days

(***************************************************************************)
(* C3: a terminal answer whose payload parses as JSON and has every        *)
(* required field with the right type, but whose number of day entries     *)
(* differs from travel_days, is not promoted to an itinerary: plan_trip    *)
(* returns the fallback itinerary, with exactly travel_days days.          *)
(***************************************************************************)
C3_DayCountMismatchFallsBack ==
  (pc \in {"returned", "raised"} /\ handed # <<>> /\ DayCountMismatch(handed[1], request)) =>
     /\ Returned
     /\ via # "parsed"
     /\ result = Some(CreateFallbackPlan(request).plan)
     /\ Len(result[1].days) = request.travel_days

\* no candidate, a candidate that is not JSON, or a payload the schema rejects
Malformed(response) ==
  \/ ~ExtractPayload(response).ok
  \/ ~ValidTripPlan(ExtractPayload(response).v)

(***************************************************************************)
(* C4: _parse_response never raises on malformed input and never returns   *)
(* a partly populated itinerary: when no candidate is found, the candidate *)
(* is not valid JSON, or the payload lacks a required field or has a       *)
(* wrongly typed one, the result is exactly the fallback itinerary of the  *)
(* request.                                                                *)
(***************************************************************************)
C4_MalformedGivesFallback ==
  (parsed # None /\ Malformed(text)) =>
     /\ ~parsed[1].raised
     /\ CreateFallbackPlan(request).ok
     /\ parsed[1].plan = CreateFallbackPlan(request).plan

\* the same for the requests whose start_date is well formed
C4_MalformedGivesFallbackOfDatedRequest ==
  (parsed # None /\ Malformed(text) /\ WellFormedDate(request.start_date)) =>
     /\ ~parsed[1].raised
     /\ parsed[1].plan = CreateFallbackPlan(request).plan
     /\ parsed[1].via = "parse_fallback"

(***************************************************************************)
(* The JSON-tagged block of a text, stated apart from find and slice.      *)
(***************************************************************************)
JsonMarkers(t) == { i \in 0..Len(t) : OccursAt(t, FenceJson, i) }

FirstJsonMarker(t) == CHOOSE i \in JsonMarkers(t) : \A j \in JsonMarkers(t) : i <= j

FencesAfter(t, from) == { k \in from..Len(t) : OccursAt(t, Fence, k) }

\* the text opens a JSON-tagged block and closes it
HasJsonBlock(t) ==
  /\ JsonMarkers(t) # {}
  /\ FencesAfter(t, FirstJsonMarker(t) + Len(FenceJson)) # {}

\* what stands between the first opening marker and the next fence after it
Between(t) ==
  LET from  == FirstJsonMarker(t) + Len(FenceJson)
      close == CHOOSE k \in FencesAfter(t, from) : \A j \in FencesAfter(t, from) : k <= j
  IN  [ n \in 1..(close - from) |-> t[from + n] ]

\* the lower tiers are taken only where no higher tier matches
LowerTiersOnlyWhenNoHigher(t) ==
  /\ Tier(t) = "fence" => JsonMarkers(t) = {}
  /\ Tier(t) = "braces" => FencesAfter(t, 0) = {}
  /\ Tier(t) = "none" => /\ FencesAfter(t, 0) = {}
                         /\ ~(\E i, j \in 1..Len(t) : t[i] = "{" /\ t[j] = "}")

Extracted == parsed # None /\ text # None /\ Len(extracted) >= 1

(***************************************************************************)
(* C5 as the spec words it: for every text with a JSON-tagged fenced       *)
(* block the candidate is exactly the text between the first opening       *)
(* marker and the next fence after it, extraction returns the parsed       *)
(* content of that block, and the lower tiers are used only when no        *)
(* higher tier matches.                                                    *)
(***************************************************************************)
C5_CandidateIsExactlyBetween ==
  Extracted =>
     /\ LowerTiersOnlyWhenNoHigher(text[1])
     /\ HasJsonBlock(text[1]) =>
          /\ JsonStr(text[1]) = Between(text[1])
          /\ extracted[1] = Loads(Between(text[1]))

(***************************************************************************)
(* C5: for every text with a JSON-tagged fenced block the candidate is     *)
(* the text between the first opening marker and the next fence after it   *)
(* with the whitespace at its two ends removed, extraction returns the     *)
(* parsed content of that block whatever braces, prose or generic fences   *)
(* stand around it, and the lower tiers are used only when no higher tier  *)
(* matches.                                                                *)
(***************************************************************************)
C5_CandidateIsStrippedBetween ==
  Extracted =>
     /\ LowerTiersOnlyWhenNoHigher(text[1])
     /\ HasJsonBlock(text[1]) =>
          /\ JsonStr(text[1]) = Strip(Between(text[1]))
          /\ extracted[1] = Loads(Between(text[1]))

\* a tagged block on its own lines, brace-carrying prose before and after it
C5_Witness ==
  /\ Extracted
  /\ text[1] = Prose \o InJsonFence(Dumps(GoodPlan)) \o <<"\n", "{", "wanbi", "}">>
  /\ JsonStr(text[1]) = Dumps(GoodPlan)
  /\ JsonStr(text[1]) # Between(text[1])
  /\ extracted[1] = [ok |-> TRUE, v |-> GoodPlan]
  /\ parsed[1].via = "parsed"

(***************************************************************************)
(* C6: the extractor is idempotent on its own successful output: a         *)
(* payload that extraction returned, serialized as JSON, set in a          *)
(* JSON-tagged fenced block and extracted again, comes back equal.         *)
(***************************************************************************)
C6_ReExtractionYieldsSamePayload ==
  Len(extracted) = 2 => /\ extracted[2].ok
                        /\ extracted[2].v = extracted[1].v

\* the same for the payloads whose strings hold no fence
C6_ReExtractionOfFenceFreePayload ==
  (Len(extracted) = 2 /\ ~Contains(Dumps(extracted[1].v), Fence)) =>
     /\ extracted[2].ok
     /\ extracted[2].v = extracted[1].v

DecimalRun == <<"1", "2", "3", "4", "5", "6", "7", "8", "9">>

NamesCityAndDays(sentence, req) ==
  /\ Contains(sentence, req.city)
  /\ \E i \in 1..Len(sentence) : sentence[i] = DecimalRun[req.travel_days]

(***************************************************************************)
(* C7: for every request with travel_days = n >= 1 and a well-formed       *)
(* start_date the fallback generator succeeds and returns n day plans      *)
(* with day_index 0..n-1 in order, day i dated start_date + i days, each   *)
(* with exactly 2 attractions and the 3 meals breakfast, lunch, dinner in  *)
(* that order, an empty weather list and an overall suggestion naming the  *)
(* city and n.                                                             *)
(***************************************************************************)
C7_FallbackItinerary ==
  (pc # "idle" /\ ValidRequest(request)) =>
     /\ Returned
     /\ via = "fallback"
     /\ DaysFollowRequest(result[1], request)
     /\ \A k \in 1..Len(result[1].days) : Len(result[1].days[k].attractions) = 2
     /\ result[1].weather_info = <<>>
     /\ NamesCityAndDays(result[1].overall_suggestions, request)

\* Beijing, 2024-05-01, 3 days
C7_Witness ==
  /\ Returned
  /\ via = "fallback"
  /\ request.city = <<"Beijing">>
  /\ request.start_date = <<"2024", "-", "05", "-", "01">>
  /\ request.travel_days = 3
  /\ [k \in 1..3 |-> result[1].days[k].date]
       = << <<"2024", "-", "05", "-", "01">>,
            <<"2024", "-", "05", "-", "02">>,
            <<"2024", "-", "05", "-", "03">> >>

(***************************************************************************)
(* C8: a planning call on a planner whose coordinator was never            *)
(* constructed fails before any message is sent to the coordinator, is     *)
(* not retried, triggers no initialization, and the error is caught by     *)
(* plan_trip, which returns the fallback itinerary.                        *)
(***************************************************************************)
C8_UninitializedCallFallsBack ==
  called_with = "None" =>
     /\ planner_agent = "None"
     /\ sent = 0
     /\ exchange = <<>>
     /\ handed = <<>>
     /\ pc \in {"query", "except", "returned"}
     /\ pc = "returned" => /\ via = "except_fallback"
                           /\ result = Some(CreateFallbackPlan(request).plan)

\* the same for the requests whose start_date is well formed
C8_UninitializedCallOfDatedRequest ==
  (called_with = "None" /\ WellFormedDate(request.start_date)) =>
     /\ planner_agent = "None"
     /\ sent = 0
     /\ exchange = <<>>
     /\ handed = <<>>
     /\ pc \in {"query", "except", "returned"}
     /\ pc = "returned" => /\ via = "except_fallback"
                           /\ result = Some(CreateFallbackPlan(request).plan)

LastBody(chunk) == chunk[2]["messages"][Len(chunk[2]["messages"])].content

LastObserved == IF snapshot = None THEN None ELSE Some(LastBody(snapshot[1]))

Instructions == { Instruction(agent) : agent \in Agents }

LastMessage == exchange[Len(exchange)]

\* what holds of the exchange and of the agents in every state of a call
C10_Exchange ==
  /\ phase = "awaiting_first_turn" =>
       /\ Len(exchange) = 1
       /\ exchange[1].content = BuildQuery(request)
  /\ pc = "stream" =>
       /\ Len(exchange) >= 1
       /\ \A k \in 1..Len(exchange) : (exchange[k].role = "HumanMessage") <=> (k = 1)
  /\ Cardinality(active) <= 1
  /\ phase = "collecting" =>
       /\ active # {}
       /\ LastMessage.name = Supervisor
       /\ \A agent \in active : LastMessage.content = Instruction(agent)
  /\ phase = "dispatching" =>
       /\ active = {}
       /\ Len(exchange) > 1 =>
            /\ LastMessage.name \in Agents
            /\ exchange[Len(exchange) - 1].content = Instruction(LastMessage.name)
  /\ phase = "terminal" =>
       /\ active = {}
       /\ LastMessage.name = Supervisor
       /\ LastMessage.content \notin Instructions

\* what holds of every step: the exchange only grows, decisions wait for the reply
C10_Step ==
  /\ Len(exchange') \in {Len(exchange), Len(exchange) + 1}
  /\ \A k \in 1..Len(exchange) : exchange'[k] = exchange[k]
  /\ (phase' # phase /\ phase' \in {"collecting", "terminal"}) =>
       /\ phase = "dispatching"
       /\ active = {}
       /\ Len(exchange') = Len(exchange) + 1
       /\ exchange'[Len(exchange')].name = Supervisor
  /\ (phase' # phase /\ phase' = "terminal") =>
       exchange'[Len(exchange')].content \notin Instructions

CallGetAmapMcpTool(c) ==
  /\ tool_pc[c] = "idle"
  /\ IF amap_mcp_tool # 0
     THEN /\ tool_pc' = [tool_pc EXCEPT ![c] = "returned"]
          /\ tool_got' = [tool_got EXCEPT ![c] = amap_mcp_tool]
          /\ UNCHANGED clients
     ELSE IF ~amap_api_key
     THEN /\ tool_pc' = [tool_pc EXCEPT ![c] = "raised"]
          /\ UNCHANGED << tool_got, clients >>
     ELSE /\ tool_pc' = [tool_pc EXCEPT ![c] = "fetching"]
          /\ clients' = clients + 1
          /\ UNCHANGED tool_got
  /\ UNCHANGED << amap_api_key, amap_mcp_tool, assigned, failures >>
  /\ UNCHANGED << request, planner_agent, callVars, checkVars, singletonVars >>

\* lines 44-56: get_tools() returns, the global is assigned and returned
GetToolsReturns(c) ==
  /\ tool_pc[c] = "fetching"
  /\ LET tools == Len(assigned) + 1
     IN  /\ amap_mcp_tool' = tools
         /\ assigned' = Append(assigned, tools)
         /\ tool_got' = [tool_got EXCEPT ![c] = tools]
  /\ tool_pc' = [tool_pc EXCEPT ![c] = "returned"]
  /\ UNCHANGED << amap_api_key, clients, failures >>
  /\ UNCHANGED << request, planner_agent, callVars, checkVars, singletonVars >>

\* line 44: get_tools() raises, nothing is assigned
GetToolsRaises(c) ==
  /\ tool_pc[c] = "fetching"
  /\ tool_pc' = [tool_pc EXCEPT ![c] = "raised"]
  /\ failures' = failures + 1
  /\ UNCHANGED << amap_api_key, amap_mcp_tool, clients, assigned, tool_got >>
  /\ UNCHANGED << request, planner_agent, callVars, checkVars, singletonVars >>

AnyRequest == CHOOSE r \in Requests : TRUE

ToolInit ==
  /\ request = AnyRequest
  /\ text = None
  /\ Idle
  /\ amap_api_key \in BOOLEAN
  /\ NoTool
  /\ NoPlanner

ToolNext ==
  \/ \E c \in Callers : CallGetAmapMcpTool(c)
  \/ \E c \in Callers : GetToolsReturns(c)
  \/ \E c \in Callers : GetToolsRaises(c)

SpecTool == ToolInit /\ [][ToolNext]_vars

(***************************************************************************)
(* C11: the shared tool-set handle is lazily constructed exactly once:     *)
(* under every interleaving of concurrent callers of get_amap_mcp_tool,    *)
(* each suspending at the awaited fetch, the client is created and the     *)
(* tool list fetched at most once, the global is never reassigned after    *)
(* its first assignment, and every caller receives that same handle.       *)
(***************************************************************************)
C11_ToolSetBuiltOnce ==
  /\ Len(assigned) <= 1
  /\ failures = 0 => clients <= 1
  /\ \A c \in Callers : tool_pc[c] = "returned" =>
       /\ assigned # <<>>
       /\ tool_got[c] = assigned[1]
       /\ tool_got[c] = amap_mcp_tool

(***************************************************************************)
(* get_trip_planner_agent (trip_planner_agent.py lines 294-303) called by  *)
(* coroutines of one event loop.  The first caller creates the planner,    *)
(* assigns the global and is suspended inside the awaited init(); init()   *)
(* then completes or raises.  planner_got[c].planner is the instance the   *)
(* caller holds: the one it is initializing, then the one returned to it.  *)
(***************************************************************************)
Holding(planner, ready) == [planner |-> planner, ready |-> ready]

\* lines 296-300: the test of the global; the planner created and assigned and its
\* init() started, or the global returned as it is (line 303)
CallGetTripPlannerAgent(c) ==
  /\ planner_pc[c] = "idle"
  /\ IF multi_agent_planner = 0
     THEN /\ planners' = Append(planners, "None")
          /\ multi_agent_planner' = Len(planners) + 1
          /\ planner_got' = [planner_got EXCEPT ![c] = Holding(Len(planners) + 1, FALSE)]
          /\ planner_pc' = [planner_pc EXCEPT ![c] = "init"]
     ELSE /\ planner_got' = [planner_got EXCEPT ![c] =
               Holding(multi_agent_planner, planners[multi_agent_planner] = "compiled")]
          /\ planner_pc' = [planner_pc EXCEPT ![c] = "returned"]
          /\ UNCHANGED << planners, multi_agent_planner >>
  /\ UNCHANGED << request, planner_agent, callVars, checkVars, toolVars >>

\* init() runs to line 82, then line 303 returns the global
PlannerInitCompletes(c) ==
  /\ planner_pc[c] = "init"
  /\ planners' = [planners EXCEPT ![planner_got[c].planner] = "compiled"]
  /\ planner_got' = [planner_got EXCEPT ![c] =
       Holding(multi_agent_planner, planners'[multi_agent_planner] = "compiled")]
  /\ planner_pc' = [planner_pc EXCEPT ![c] = "returned"]
  /\ UNCHANGED multi_agent_planner
  /\ UNCHANGED << request, planner_agent, callVars, checkVars, toolVars >>

\* init() raises (lines 84-86) before planner_agent is set; the caller gets the exception
PlannerInitRaises(c) ==
  /\ planner_pc[c] = "init"
  /\ planner_pc' = [planner_pc EXCEPT ![c] = "raised"]
  /\ UNCHANGED << multi_agent_planner, planners, planner_got >>
  /\ UNCHANGED << request, planner_agent, callVars, checkVars, toolVars >>

\* a caller that was answered calls again
CallAgain(c) ==
  /\ planner_pc[c] \in {"returned", "raised"}
  /\ planner_pc' = [planner_pc EXCEPT ![c] = "idle"]
  /\ planner_got' = [planner_got EXCEPT ![c] = Holding(0, FALSE)]
  /\ UNCHANGED << multi_agent_planner, planners >>
  /\ UNCHANGED << request, planner_agent, callVars, checkVars, toolVars >>

SingletonInit ==
  /\ request = AnyRequest
  /\ text = None
  /\ Idle
  /\ Unshared

SingletonNext ==
  \/ \E c \in Callers : CallGetTripPlannerAgent(c)
  \/ \E c \in Callers : PlannerInitCompletes(c)
  \/ \E c \in Callers : PlannerInitRaises(c)
  \/ \E c \in Callers : CallAgain(c)

SpecSingleton == SingletonInit /\ [][SingletonNext]_vars

(***************************************************************************)
(* C12: every planner instance get_trip_planner_agent returns has          *)
(* completed init() (planner_agent is not None), under every interleaving  *)
(* of concurrent first callers suspended inside the awaited init(), and    *)
(* on every call that follows a call whose init() raised.                  *)
(***************************************************************************)
C12_ReturnedPlannerIsInitialized ==
  \A c \in Callers : planner_pc[c] = "returned" =>
     /\ planner_got[c].planner = multi_agent_planner
     /\ planner_got[c].ready

\* the same for the caller whose own init() completed
C12_InitializingCallerGetsInitializedPlanner ==
  [][\A c \in Callers :
       (planner_pc[c] = "init" /\ planner_pc'[c] = "returned") => planner_got'[c].ready]_vars
====
